---------------------------- MODULE Spec2Model ----------------------------
(***************************************************************************)
(* A model of src/net.rs: the IPv4/IPv6 address value types and            *)
(* Tcp4Stream, whose only operations are new() and connect().  connect()   *)
(* makes seven firmware calls in sequence (CreateEvent x4, LocateProtocol, *)
(* CreateChild, OpenProtocol); every call is wrapped in ret_on_err!, which *)
(* returns Err from connect() as soon as a call reports a non-success      *)
(* status.  The firmware (boot services and the TCP4 service binding) is   *)
(* the environment: every call may succeed or fail with any error status,  *)
(* and the log `calls` records the calls connect() made, as a mock         *)
(* dispatch table would.                                                   *)
(***************************************************************************)
EXTENDS Integers, Sequences, FiniteSets, TLC

\* Number of connect() calls in one run.
MaxConnects == 2

-----------------------------------------------------------------------------
(* Values *)

NULL == 0

EFI_SUCCESS == "EFI_SUCCESS"

\* Error statuses the firmware may report from a call.
ErrorStatuses == {"EFI_OUT_OF_RESOURCES", "EFI_INVALID_PARAMETER", "EFI_NOT_FOUND"}

Statuses == {EFI_SUCCESS} \cup ErrorStatuses

\* ffi::IsSuccess, imported at net.rs:15 and used by ret_on_err!.
IsSuccess(status) == status = EFI_SUCCESS

\* Raw EFI_IPv4_ADDRESS values (4 bytes) and u16 ports used as inputs.
RawIpv4 == {<<0, 0, 0, 0>>, <<10, 0, 0, 2>>, <<255, 255, 255, 255>>}

Ports == {0, 80, 65535}

\* EFI_IPv4_ADDRESS::zero()
EFI_IPv4_ADDRESS_zero == <<0, 0, 0, 0>>

\* impl From<EFI_IPv4_ADDRESS> for Ipv4Addr: the tuple struct Ipv4Addr(val).
Ipv4Addr_from(val) == <<val>>

\* impl From<Ipv4Addr> for EFI_IPv4_ADDRESS: val.0
EFI_IPv4_ADDRESS_from(val) == val[1]

\* Raw EFI_IPv6_ADDRESS values (16 bytes).
RawIpv6 ==
    { [i \in 1..16 |-> 0],
      [i \in 1..16 |-> IF i = 16 THEN 1 ELSE 0],
      [i \in 1..16 |-> 255],
      [i \in 1..16 |-> i] }

\* impl From<EFI_IPv6_ADDRESS> for Ipv6Addr: the tuple struct Ipv6Addr(val).
Ipv6Addr_from(val) == <<val>>

\* impl From<Ipv6Addr> for EFI_IPv6_ADDRESS: val.0
EFI_IPv6_ADDRESS_from(val) == val[1]

\* SocketAddrV4::new keeping only the low byte of the port.
SocketAddrV4_new_LowByte(ip, port) == [ip |-> ip, port |-> port % 256]

\* SocketAddrV4::new
SocketAddrV4_new(ip, port) == [ip |-> ip, port |-> port]

\* SocketAddrV4::ip
SocketAddrV4_ip(self) == self.ip

\* SocketAddrV4::port
SocketAddrV4_port(self) == self.port

\* SocketAddrV6::new
SocketAddrV6_new(ip, port) == [ip |-> ip, port |-> port]

\* SocketAddrV6::ip
SocketAddrV6_ip(self) == self.ip

\* SocketAddrV6::port
SocketAddrV6_port(self) == self.port

\* The socket addresses a caller may pass to connect().
SocketAddrs == {SocketAddrV4_new(Ipv4Addr_from(a), p) : a \in RawIpv4, p \in Ports}

-----------------------------------------------------------------------------
(* Tcp4Stream *)

\* A completion token in its default() state: no event, status zero.
DefaultToken == [Event |-> NULL, Status |-> 0]

\* Tcp4Stream::new leaving a handle value in device_handle instead of null.
Tcp4Stream_new_Stale ==
    [ bs            |-> "BootServices",
      device_handle |-> 1,
      protocol      |-> NULL,
      connect_token |-> DefaultToken,
      recv_token    |-> DefaultToken,
      send_token    |-> DefaultToken,
      close_token   |-> DefaultToken ]

\* Tcp4Stream::new
Tcp4Stream_new ==
    [ bs            |-> "BootServices",
      device_handle |-> NULL,
      protocol      |-> NULL,
      connect_token |-> DefaultToken,
      recv_token    |-> DefaultToken,
      send_token    |-> DefaultToken,
      close_token   |-> DefaultToken ]

\* The local config_data that connect() builds from its argument.
ConfigData(addr) ==
    [ TypeOfService |-> 0,
      TimeToLive    |-> 255,
      AccessPoint   |->
        [ UseDefaultAddress |-> TRUE,
          StationAddress    |-> EFI_IPv4_ADDRESS_zero,
          SubnetMask        |-> EFI_IPv4_ADDRESS_zero,
          StationPort       |-> 0,
          RemoteAddress     |-> EFI_IPv4_ADDRESS_from(SocketAddrV4_ip(addr)),
          RemotePort        |-> SocketAddrV4_port(addr),
          ActiveFlag        |-> TRUE ],
      ControlOption |-> NULL ]

\* What dropping a Tcp4Stream does: the struct has no Drop implementation and
\* all its fields are raw pointers and plain data, so the drop glue makes no
\* firmware call.
DropCalls(s) == << >>

\* ret_on_err!(call): every call site hands the macro the value of the call,
\* its status, and nothing else; IsSuccess and EfiError are imported for it.
\* connect() returns Err built from the status when the call did not succeed,
\* and goes on otherwise.
ret_on_err(status) ==
    IF IsSuccess(status) THEN [ret |-> FALSE, err |-> EFI_SUCCESS]
                         ELSE [ret |-> TRUE,  err |-> status]

NoStream == [none |-> TRUE]
NoAddr   == [none |-> TRUE]
NoResult == [kind |-> "None"]
NoProbe  == [type |-> "None"]

\* Ok(Self::new()): a new empty stream returned in place of the populated one.
Ok_Empty(s) == [kind |-> "Ok", stream |-> Tcp4Stream_new]

Ok(s)  == [kind |-> "Ok", stream |-> s]
Err(e) == [kind |-> "Err", err |-> e]

-----------------------------------------------------------------------------
(* Firmware calls as recorded by the dispatch table *)

Call(fn, guid, arg, agent, status, out) ==
    [fn |-> fn, guid |-> guid, arg |-> arg, agent |-> agent,
     status |-> status, out |-> out]

Max(S) == CHOOSE x \in S : \A y \in S : y <= x

\* The firmware hands out handles that are not in use.
Fresh(S) == IF S = {} THEN 1 ELSE Max(S) + 1

VARIABLES
    pc,        \* where connect() is: "idle", the call it is about to make, or
               \* "aborted" when the program died inside connect()
    connects,  \* number of connect() calls started
    addr,      \* the argument of the current (or last) connect() call
    config_data, \* the local config_data of the current connect() call
    stream,    \* the local `stream` of the current connect() call
    service_binding_protocol, \* the local of that name
    result,    \* what the last connect() call returned
    streams,   \* the Tcp4Streams the caller holds
    calls,     \* firmware calls made by the current (or last) connect() call
               \* and by whatever ran when its value was dropped
    events,    \* firmware: event handles allocated
    children,  \* firmware: TCP4 child handles allocated
    probe,     \* the last address value the caller built, with what its accessors gave
    seen       \* the errors connect() has returned, each with the call that failed

vars == <<pc, connects, addr, config_data, stream, service_binding_protocol,
          result, streams, calls, events, children, probe, seen>>

Init ==
    /\ pc = "idle"
    /\ connects = 0
    /\ addr = NoAddr
    /\ config_data = NoAddr
    /\ stream = NoStream
    /\ service_binding_protocol = NULL
    /\ result = NoResult
    /\ streams = {}
    /\ calls = << >>
    /\ events = {}
    /\ children = {}
    /\ probe = NoProbe
    /\ seen = {}

\* connect() returns Err(e): the locals go out of scope, `stream` is dropped.
ReturnErr(e, log) ==
    /\ result' = Err(e)
    /\ calls' = log \o DropCalls(stream)
    /\ pc' = "idle"
    /\ stream' = NoStream
    /\ config_data' = NoAddr
    /\ service_binding_protocol' = NULL
    /\ seen' = seen \cup {[fn |-> log[Len(log)].fn, err |-> e]}
    /\ UNCHANGED <<connects, addr, streams, probe>>

\* Entry of connect(addr): lines 146-163.  Line 163 transmutes a null pointer
\* to EFI_EVENT_NOTIFY, a type defined outside this file.  If it is a bare
\* function pointer type the null value is undefined behaviour: unoptimised
\* builds go on with a null callback, optimised builds compile the rest of
\* connect() to a trap and the program dies after Tcp4Stream::new(), before
\* any firmware call.  If it is an Option of one, every build goes on.
Connect(a) ==
    /\ pc = "idle"
    /\ connects < MaxConnects
    /\ connects' = connects + 1
    /\ addr' = a
    /\ service_binding_protocol' = NULL
    /\ result' = NoResult
    /\ calls' = << >>
    /\ \/ /\ config_data' = ConfigData(a)
          /\ stream' = Tcp4Stream_new
          /\ pc' = "CreateEvent_connect"
       \/ /\ config_data' = NoAddr
          /\ stream' = NoStream
          /\ pc' = "aborted"
    /\ UNCHANGED <<streams, events, children, probe, seen>>

\* One CreateEvent call writing the Event of token `tok`.
CreateEvent(at, tok, next) ==
    /\ pc = at
    /\ \E status \in Statuses :
         LET ev  == IF IsSuccess(status) THEN Fresh(events) ELSE NULL
             log == Append(calls, Call("CreateEvent", "None", NULL, "None", status, ev))
         IN  IF ret_on_err(status).ret
             THEN /\ ReturnErr(ret_on_err(status).err, log)
                  /\ UNCHANGED <<events, children>>
             ELSE /\ stream' = [stream EXCEPT ![tok].Event = ev]
                  /\ events' = events \cup {ev}
                  /\ calls' = log
                  /\ pc' = next
                  /\ UNCHANGED <<connects, addr, config_data, service_binding_protocol,
                                 result, streams, children, probe, seen>>

CreateEventConnect == CreateEvent("CreateEvent_connect", "connect_token", "CreateEvent_send")

\* The second CreateEvent given the receive token's event, not the send token's.
CreateEventSend_RecvSlot == CreateEvent("CreateEvent_send", "recv_token", "CreateEvent_recv")

CreateEventSend == CreateEvent("CreateEvent_send", "send_token", "CreateEvent_recv")

CreateEventRecv == CreateEvent("CreateEvent_recv", "recv_token", "CreateEvent_close")

CreateEventClose == CreateEvent("CreateEvent_close", "close_token", "LocateProtocol")

\* The firmware writes its out parameter through a pointer that connect()
\* transmutes from a shared reference (here &service_binding_protocol, below
\* &stream.device_handle and &stream.protocol).  service_binding_protocol is
\* an immutable local, so the write is undefined behaviour: what a later read
\* of the local gives is settled where it is read, in CreateChild.
\* Tcp4ServiceBinding is the non-null address of the interface the firmware
\* stores through the out parameter.
Tcp4ServiceBinding == 1

LocateProtocol ==
    /\ pc = "LocateProtocol"
    /\ \E status \in Statuses :
         LET iface == IF IsSuccess(status) THEN Tcp4ServiceBinding ELSE NULL
             log == Append(calls, Call("LocateProtocol",
                                       "EFI_TCP4_SERVICE_BINDING_PROTOCOL_GUID",
                                       NULL, "None", status, iface))
         IN  IF ret_on_err(status).ret
             THEN /\ ReturnErr(ret_on_err(status).err, log)
                  /\ UNCHANGED <<events, children>>
             ELSE /\ service_binding_protocol' = iface
                  /\ calls' = log
                  /\ pc' = "CreateChild"
                  /\ UNCHANGED <<connects, addr, config_data, stream, result,
                                 streams, events, children, probe, seen>>

\* The `This` argument of (*service_binding_protocol).CreateChild: the function
\* pointer is loaded from the table the firmware stored, and the argument is
\* the stored pointer in builds that reload the local, the null the local was
\* initialised with in builds that take the immutable local as unchanged.
\* A build of the second kind that checks pointers before it dereferences
\* them finds the local null at `(*service_binding_protocol)` and panics: the
\* program dies inside connect() after LocateProtocol, and CreateChild is
\* never called.
ThisOfCreateChild == {service_binding_protocol, NULL}

\* CreateChild asked for only once: a later connect() stores the child
\* instance an earlier call obtained instead of a new one.
CreateChild_Reuse ==
    /\ pc = "CreateChild"
    /\ \/ \E status \in Statuses :
          \E this \in ThisOfCreateChild :
            LET child == IF ~IsSuccess(status) THEN NULL
                         ELSE IF children = {} THEN Fresh(children) ELSE Max(children)
                log == Append(calls, Call("CreateChild", "None",
                                          this, "None", status, child))
            IN  IF ret_on_err(status).ret
                THEN /\ ReturnErr(ret_on_err(status).err, log)
                     /\ UNCHANGED <<events, children>>
                ELSE /\ stream' = [stream EXCEPT !.device_handle = child]
                     /\ children' = children \cup {child}
                     /\ calls' = log
                     /\ pc' = "OpenProtocol"
                     /\ UNCHANGED <<connects, addr, config_data, service_binding_protocol,
                                    result, streams, events, probe, seen>>
       \/ /\ pc' = "aborted"
          /\ stream' = NoStream
          /\ config_data' = NoAddr
          /\ service_binding_protocol' = NULL
          /\ UNCHANGED <<connects, addr, result, streams, calls, events,
                         children, probe, seen>>

CreateChild ==
    /\ pc = "CreateChild"
    /\ \/ \E status \in Statuses :
          \E this \in ThisOfCreateChild :
            LET child == IF IsSuccess(status) THEN Fresh(children) ELSE NULL
                log == Append(calls, Call("CreateChild", "None",
                                          this, "None", status, child))
            IN  IF ret_on_err(status).ret
                THEN /\ ReturnErr(ret_on_err(status).err, log)
                     /\ UNCHANGED <<events, children>>
                ELSE /\ stream' = [stream EXCEPT !.device_handle = child]
                     /\ children' = children \cup {child}
                     /\ calls' = log
                     /\ pc' = "OpenProtocol"
                     /\ UNCHANGED <<connects, addr, config_data, service_binding_protocol,
                                    result, streams, events, probe, seen>>
       \/ /\ pc' = "aborted"
          /\ stream' = NoStream
          /\ config_data' = NoAddr
          /\ service_binding_protocol' = NULL
          /\ UNCHANGED <<connects, addr, result, streams, calls, events,
                         children, probe, seen>>

\* The interface pointer the firmware returns for the TCP4 protocol of a child.
Tcp4Interface(child) == child

\* OpenProtocol with the call not wrapped in ret_on_err!: the status is
\* ignored and connect() goes on to Ok(stream).
OpenProtocol_Unchecked ==
    /\ pc = "OpenProtocol"
    /\ \E status \in Statuses :
         LET iface == IF IsSuccess(status) THEN Tcp4Interface(stream.device_handle) ELSE NULL
             log == Append(calls, Call("OpenProtocol", "EFI_TCP4_PROTOCOL_GUID",
                                       stream.device_handle, "ImageHandle", status, iface))
             s == [stream EXCEPT !.protocol = iface]
         IN  /\ result' = Ok(s)
             /\ streams' = streams \cup {s}
             /\ calls' = log
             /\ pc' = "idle"
             /\ stream' = NoStream
             /\ config_data' = NoAddr
             /\ service_binding_protocol' = NULL
             /\ UNCHANGED <<connects, addr, events, children, probe, seen>>

\* OpenProtocol, and on success the Ok(stream) of line 183.
OpenProtocol ==
    /\ pc = "OpenProtocol"
    /\ \E status \in Statuses :
         LET iface == IF IsSuccess(status) THEN Tcp4Interface(stream.device_handle) ELSE NULL
             log == Append(calls, Call("OpenProtocol", "EFI_TCP4_PROTOCOL_GUID",
                                       stream.device_handle, "ImageHandle", status, iface))
         IN  IF ret_on_err(status).ret
             THEN /\ ReturnErr(ret_on_err(status).err, log)
                  /\ UNCHANGED <<events, children>>
             ELSE LET s == [stream EXCEPT !.protocol = iface]
                  IN  /\ result' = Ok(s)
                      /\ streams' = streams \cup {s}
                      /\ calls' = log
                      /\ pc' = "idle"
                      /\ stream' = NoStream
                      /\ config_data' = NoAddr
                      /\ service_binding_protocol' = NULL
                      /\ UNCHANGED <<connects, addr, events, children, probe, seen>>

\* The caller lets go of a Tcp4Stream it holds: the value is dropped.
Discard ==
    /\ pc = "idle"
    /\ \E s \in streams :
         /\ streams' = streams \ {s}
         /\ calls' = calls \o DropCalls(s)
         /\ UNCHANGED <<pc, connects, addr, config_data, stream,
                        service_binding_protocol, result, events, children, probe, seen>>

Next ==
    \/ \E a \in SocketAddrs : Connect(a)
    \/ CreateEventConnect
    \/ CreateEventSend
    \/ CreateEventRecv
    \/ CreateEventClose
    \/ LocateProtocol
    \/ CreateChild
    \/ OpenProtocol
    \/ Discard

Spec == Init /\ [][Next]_vars

-----------------------------------------------------------------------------
(* The address value types on their own *)

\* Bytes and ports the address values are built from.
AddrBytes == {0, 1, 255}

ProbeIpv4 == {<<a, b, c, d>> : a \in AddrBytes, b \in AddrBytes,
                               c \in AddrBytes, d \in AddrBytes}

ProbePorts == {0, 1, 80, 255, 256, 65535}

ConnectVars == <<pc, connects, addr, config_data, stream, service_binding_protocol,
                 result, streams, calls, events, children, seen>>

\* The caller turns a raw IPv4 address into an Ipv4Addr, builds a SocketAddrV4
\* from it and a port, reads both back and turns the address back into a raw
\* one.
ProbeV4 ==
    /\ \E raw \in ProbeIpv4, p \in ProbePorts :
         LET a  == Ipv4Addr_from(raw)
             sa == SocketAddrV4_new(a, p)
         IN  probe' = [ type |-> "V4", raw |-> raw, a |-> a, port |-> p,
                        ip_out   |-> SocketAddrV4_ip(sa),
                        port_out |-> SocketAddrV4_port(sa),
                        raw_back |-> EFI_IPv4_ADDRESS_from(SocketAddrV4_ip(sa)) ]
    /\ UNCHANGED ConnectVars

\* The same with an IPv6 address and a SocketAddrV6.
ProbeV6 ==
    /\ \E raw \in RawIpv6, p \in ProbePorts :
         LET a  == Ipv6Addr_from(raw)
             sa == SocketAddrV6_new(a, p)
         IN  probe' = [ type |-> "V6", raw |-> raw, a |-> a, port |-> p,
                        ip_out   |-> SocketAddrV6_ip(sa),
                        port_out |-> SocketAddrV6_port(sa),
                        raw_back |-> EFI_IPv6_ADDRESS_from(SocketAddrV6_ip(sa)) ]
    /\ UNCHANGED ConnectVars

AddrNext ==
    \/ ProbeV4
    \/ ProbeV6

AddrSpec == Init /\ [][AddrNext]_vars

-----------------------------------------------------------------------------
(* Reading the record of a connect() call *)

\* connect() has returned (and no other connect() call has started since).
Returned == pc = "idle" /\ result.kind # "None"

SetupFns == {"CreateEvent", "LocateProtocol", "CreateChild", "OpenProtocol"}

CallsOf(fn) == {i \in DOMAIN calls : calls[i].fn = fn}

NumCalls(fn) == Cardinality(CallsOf(fn))

\* The setup calls of this connect() that reported an error.
FailedCalls == {i \in DOMAIN calls : calls[i].fn \in SetupFns /\ ~IsSuccess(calls[i].status)}

\* The firmware function whose failure made connect() return, "None" if no call failed.
FailedFn == IF FailedCalls = {} THEN "None"
            ELSE calls[CHOOSE i \in FailedCalls : TRUE].fn

\* Event handles and child handles this connect() call obtained.
EventsCreated ==
    {calls[i].out : i \in {j \in CallsOf("CreateEvent") : IsSuccess(calls[j].status)}}

ChildrenCreated ==
    {calls[i].out : i \in {j \in CallsOf("CreateChild") : IsSuccess(calls[j].status)}}

\* Event handles and child handles this connect() call (or the drop of its
\* value) gave back to the firmware.
EventsDestroyed == {calls[i].arg : i \in CallsOf("CloseEvent")}

ChildrenDestroyed == {calls[i].arg : i \in CallsOf("DestroyChild")}

\* The k-th of the four CreateEvent calls failed, the first k-1 having succeeded.
EventCreationFailedAt(k) ==
    /\ Returned
    /\ FailedFn = "CreateEvent"
    /\ NumCalls("CreateEvent") = k

-----------------------------------------------------------------------------
(* C1 *)

\* C1: for every k in 1..4, when the k-th signal-object creation of connect()
\* fails, connect() returns an error and by then exactly k-1 destroy-signal
\* calls are recorded, so that no signal object created by the call remains
\* allocated.
C1_EventRollback ==
    \A k \in 1..4 :
        EventCreationFailedAt(k) =>
            /\ result.kind = "Err"
            /\ NumCalls("CloseEvent") = k - 1
            /\ EventsDestroyed = EventsCreated
            /\ EventsCreated \cap events = {}

-----------------------------------------------------------------------------
(* C2 *)

\* C2: when connect() returns an error because the service-binding lookup or
\* the child-instance creation failed, the four signal objects created by the
\* call have all been destroyed (as many destroyed as created) and no
\* Tcp4Stream is returned.
C2_RollbackAfterSignals ==
    (Returned /\ FailedFn \in {"LocateProtocol", "CreateChild"}) =>
        /\ result.kind = "Err"
        /\ Cardinality(EventsCreated) = 4
        /\ NumCalls("CloseEvent") = Cardinality(EventsCreated)

-----------------------------------------------------------------------------
(* C3 *)

\* C3: when the child instance was created and the open of the TCP protocol
\* on it fails, then at the return of connect() destroy_child has been called
\* exactly once with that child handle, the four signal objects have been
\* destroyed, and the child is no longer allocated.
C3_ChildRollback ==
    (Returned /\ FailedFn = "OpenProtocol") =>
        /\ \A c \in ChildrenCreated :
              /\ Cardinality({i \in CallsOf("DestroyChild") : calls[i].arg = c}) = 1
              /\ c \notin children
        /\ NumCalls("CloseEvent") = 4

-----------------------------------------------------------------------------
(* C4 *)

\* C4: connect() returns Ok only after it has issued the connect request with
\* the connect token, then waited on the connect token's event, and the
\* request completed with success.
C4_OkOnlyAfterConnect ==
    (Returned /\ result.kind = "Ok") =>
        \E i \in CallsOf("Connect"), j \in CallsOf("WaitForEvent") :
            /\ i < j
            /\ IsSuccess(calls[i].status)
            /\ calls[j].arg = result.stream.connect_token.Event

-----------------------------------------------------------------------------
(* C5 *)

\* The remote addresses the firmware is set up to refuse connections to.
RefusedAddrs == {<<10, 0, 0, 2>>}

\* C5: when the firmware refuses the connection to the destination, connect()
\* returns an error and not Ok, and the events and child instances the call
\* created have all been destroyed.
C5_RefusedConnect ==
    (Returned /\ FailedFn = "None"
              /\ EFI_IPv4_ADDRESS_from(SocketAddrV4_ip(addr)) \in RefusedAddrs) =>
        /\ result.kind = "Err"
        /\ EventsDestroyed = EventsCreated
        /\ ChildrenDestroyed = ChildrenCreated

-----------------------------------------------------------------------------
(* C6 *)

\* C6: for every destination passed to connect(), once the protocol interface
\* is open the child instance is configured, before connect() returns Ok, with
\* use-default-address set, the caller's remote address and port, time-to-live
\* 255 and the active flag.
C6_ChildConfigured ==
    (Returned /\ result.kind = "Ok") =>
        \E o \in CallsOf("OpenProtocol"), c \in CallsOf("Configure") :
            /\ o < c
            /\ IsSuccess(calls[c].status)
            /\ calls[c].arg.AccessPoint.UseDefaultAddress = TRUE
            /\ calls[c].arg.AccessPoint.RemoteAddress = EFI_IPv4_ADDRESS_from(SocketAddrV4_ip(addr))
            /\ calls[c].arg.AccessPoint.RemotePort = SocketAddrV4_port(addr)
            /\ calls[c].arg.TimeToLive = 255
            /\ calls[c].arg.AccessPoint.ActiveFlag = TRUE

-----------------------------------------------------------------------------
(* C7 *)

\* The error kind the specification gives a failed setup step: allocation of
\* a signal object or of the child instance that failed is ResourceExhausted,
\* the service lookup or the protocol open that failed is ProtocolUnavailable.
ErrorKind(fn) ==
    CASE fn \in {"CreateEvent", "CreateChild"}     -> "ResourceExhausted"
      [] fn \in {"LocateProtocol", "OpenProtocol"} -> "ProtocolUnavailable"

\* C7: the error of connect() names the step that failed.  connect() never
\* returns Ok when a call failed, and the errors it has returned can be read
\* as kinds of the taxonomy, each error value as one kind, so that every error
\* returned for a failed CreateEvent or CreateChild is ResourceExhausted and
\* every error returned for a failed LocateProtocol or OpenProtocol is
\* ProtocolUnavailable.
C7_ErrorNamesStep ==
    /\ (Returned /\ FailedFn # "None") => result.kind = "Err"
    /\ \E kind \in [ErrorStatuses -> {"ResourceExhausted", "ProtocolUnavailable"}] :
          \A f \in seen : kind[f.err] = ErrorKind(f.fn)

-----------------------------------------------------------------------------
(* C8 *)

\* The lifecycle state of a Tcp4Stream, read from its fields and from the
\* calls made for it: a child handle makes it Binding-Created, a protocol
\* interface Protocol-Opened, a completed connect request Active, a close
\* request Closing.
Lifecycle(s) ==
    IF s.device_handle = NULL THEN "Unconfigured"
    ELSE IF s.protocol = NULL THEN "BindingCreated"
    ELSE IF \E i \in CallsOf("Close") : calls[i].arg = s.protocol THEN "Closing"
    ELSE IF \E i \in CallsOf("Connect") :
               calls[i].arg = s.protocol /\ IsSuccess(calls[i].status) THEN "Active"
    ELSE "ProtocolOpened"

Rank(state) ==
    CASE state = "Unconfigured"   -> 0
      [] state = "BindingCreated" -> 1
      [] state = "ProtocolOpened" -> 2
      [] state = "Active"         -> 3
      [] state = "Closing"        -> 4
      [] OTHER                    -> 5

\* The Tcp4Stream of the current connect() call: the local while the call
\* runs, the returned value after it.
Handle ==
    IF stream # NoStream THEN stream
    ELSE IF result.kind = "Ok" THEN result.stream
    ELSE NoStream

\* A step of one handle stays in its state or moves to the next one.
LifecycleStep ==
    (connects' = connects /\ Handle # NoStream /\ Handle' # NoStream) =>
        Rank(Lifecycle(Handle))' \in {Rank(Lifecycle(Handle)), Rank(Lifecycle(Handle)) + 1}

\* C8: the lifecycle state of a handle only moves forward, one state at a
\* time, through Unconfigured, Binding-Created, Protocol-Opened, Active,
\* Closing, Destroyed; in particular the handle connect() gives to the caller
\* has passed through Protocol-Opened and is Active.
C8_LifecycleOrder ==
    /\ [][LifecycleStep]_vars
    /\ [](Returned /\ result.kind = "Ok" => Lifecycle(result.stream) = "Active")

-----------------------------------------------------------------------------
(* C10 *)

\* The Tcp4Stream values that exist: the local of a running connect() and
\* those the caller holds.
LiveHandles == (IF stream = NoStream THEN {} ELSE {stream}) \cup streams

EventsOf(s) ==
    {s.connect_token.Event, s.send_token.Event,
     s.recv_token.Event, s.close_token.Event} \ {NULL}

\* C10: when a Tcp4Stream goes away without a close, at an early return of
\* connect() or in the caller's hands, what it had acquired is destroyed, so
\* every event and every child instance still allocated belongs to a
\* Tcp4Stream that still exists.
C10_NoLeakOnDiscard ==
    /\ events \subseteq UNION {EventsOf(s) : s \in LiveHandles}
    /\ children \subseteq {s.device_handle : s \in LiveHandles}

-----------------------------------------------------------------------------
(* C13 *)

\* C13: building a socket address and reading it back loses nothing: for
\* every address a and port p, 0 included, SocketAddrV4::new(a, p).ip() is a
\* and .port() is p, the same for SocketAddrV6, and a raw address turned into
\* an Ipv4Addr or Ipv6Addr and back is the raw address again.
C13_AddrLossless ==
    probe.type # "None" =>
        /\ probe.ip_out = probe.a
        /\ probe.port_out = probe.port
        /\ probe.raw_back = probe.raw

\* A SocketAddrV4 was built with the largest port and read back.
C13_Witness ==
    /\ probe.type = "V4"
    /\ probe.port = 65535
    /\ probe.port_out = 65535
    /\ probe.raw = <<255, 0, 1, 255>>
    /\ probe.raw_back = <<255, 0, 1, 255>>

-----------------------------------------------------------------------------
(* C14 *)

\* Firmware functions that take a completion token.
IoFns == {"Connect", "Transmit", "Receive", "Close"}

\* How many times event e was given back to the firmware.
TimesDestroyed(e) == Cardinality({i \in CallsOf("CloseEvent") : calls[i].arg = e})

\* The Tcp4Stream of this connect() call no longer exists: connect() returned
\* an error, or the caller has let go of the value it returned.
HandleGone ==
    /\ Returned
    /\ \/ result.kind = "Err"
       \/ result.kind = "Ok" /\ result.stream \notin streams

\* C14: a token's event is created before the token is passed to a call that
\* issues I/O, is never destroyed twice, is not used after its destroy, and
\* once the handle is gone (any exit of connect(), any later teardown) has
\* been destroyed exactly once.
C14_EventDestroyedOnce ==
    /\ \A i \in DOMAIN calls :
          calls[i].fn \in IoFns =>
              /\ \E j \in CallsOf("CreateEvent") : j < i /\ calls[j].out = calls[i].arg
              /\ \A j \in CallsOf("CloseEvent") : calls[j].arg = calls[i].arg => i < j
    /\ \A e \in EventsCreated : TimesDestroyed(e) <= 1
    /\ HandleGone => \A e \in EventsCreated : TimesDestroyed(e) = 1

-----------------------------------------------------------------------------
(* C15 *)

\* C15: no two Tcp4Streams share an event or a child instance: the events and
\* the child a connect() call stores in its stream are the ones that call
\* obtained, and the events and children of distinct existing Tcp4Streams are
\* disjoint.
C15_NoSharing ==
    /\ stream # NoStream =>
          /\ EventsOf(stream) = EventsCreated
          /\ {stream.device_handle} \ {NULL} = ChildrenCreated
    /\ \A s1 \in LiveHandles, s2 \in LiveHandles :
          s1 # s2 =>
              /\ EventsOf(s1) \cap EventsOf(s2) = {}
              /\ ({s1.device_handle} \cap {s2.device_handle}) \ {NULL} = {}

\* The caller holds one connected Tcp4Stream while a second connect() has
\* obtained its four events and its child.
C15_Witness ==
    /\ pc = "OpenProtocol"
    /\ Cardinality(streams) = 1
    /\ Cardinality(EventsOf(stream)) = 4
    /\ stream.device_handle # NULL

-----------------------------------------------------------------------------
(* C16 *)

\* A token with no event and a zero status.
ZeroToken(tok) == tok.Event = NULL /\ tok.Status = 0

\* A Tcp4Stream with nothing acquired.
EmptyHandle(s) ==
    /\ s.device_handle = NULL
    /\ s.protocol = NULL
    /\ ZeroToken(s.connect_token)
    /\ ZeroToken(s.send_token)
    /\ ZeroToken(s.recv_token)
    /\ ZeroToken(s.close_token)

\* A step of connect() changes a field of its stream only when it is the call
\* that acquires that field, and of a token only its event.
FieldWrites ==
    (connects' = connects /\ Handle # NoStream /\ Handle' # NoStream) =>
        /\ Handle'.bs = Handle.bs
        /\ Handle'.connect_token # Handle.connect_token => pc = "CreateEvent_connect"
        /\ Handle'.send_token # Handle.send_token => pc = "CreateEvent_send"
        /\ Handle'.recv_token # Handle.recv_token => pc = "CreateEvent_recv"
        /\ Handle'.close_token # Handle.close_token => pc = "CreateEvent_close"
        /\ Handle'.device_handle # Handle.device_handle => pc = "CreateChild"
        /\ Handle'.protocol # Handle.protocol => pc = "OpenProtocol"
        /\ \A tok \in {"connect_token", "send_token", "recv_token", "close_token"} :
              Handle'[tok].Status = Handle[tok].Status

\* C16: right after Tcp4Stream::new(), before the first setup call of
\* connect(), the stream has a null child handle, a null protocol pointer and
\* four tokens in their zero state without an event; afterwards each field is
\* written only by the setup call that acquires it.
C16_StartsEmpty ==
    /\ [](pc = "CreateEvent_connect" => EmptyHandle(stream))
    /\ [][FieldWrites]_vars

\* A second connect() has just made its stream while the caller holds the
\* populated Tcp4Stream of the first.
C16_Witness ==
    /\ pc = "CreateEvent_connect"
    /\ connects = 2
    /\ streams # {}
    /\ EmptyHandle(stream)

-----------------------------------------------------------------------------
(* C17 *)

\* The firmware calls of connect() in the order of the source.
SetupOrder ==
    << "CreateEvent", "CreateEvent", "CreateEvent", "CreateEvent",
       "LocateProtocol", "CreateChild", "OpenProtocol" >>

\* The token whose event each of the first four calls writes.
TokenOrder == << "connect_token", "send_token", "recv_token", "close_token" >>

\* C17: connect() makes its firmware calls in one order: CreateEvent for the
\* connect, send, receive and close token, LocateProtocol for the TCP4 service
\* binding, CreateChild, OpenProtocol of TCP4 on the child with the image
\* handle.  A call is made only if all earlier ones succeeded, and at the
\* first failure connect() returns Err and makes no further call.
C17_CallOrder ==
    /\ Len(calls) <= Len(SetupOrder)
    /\ \A i \in DOMAIN calls :
          /\ calls[i].fn = SetupOrder[i]
          /\ i < Len(calls) => IsSuccess(calls[i].status)
    /\ FailedCalls # {} => Returned /\ result.kind = "Err"
    /\ Handle # NoStream =>
          \A k \in 1..4 :
              Handle[TokenOrder[k]].Event = IF k <= Len(calls) THEN calls[k].out ELSE NULL
    /\ Len(calls) >= 5 => calls[5].guid = "EFI_TCP4_SERVICE_BINDING_PROTOCOL_GUID"
    /\ Len(calls) >= 6 => calls[6].arg \in {calls[5].out, NULL}
    /\ Len(calls) >= 7 =>
          /\ calls[7].guid = "EFI_TCP4_PROTOCOL_GUID"
          /\ calls[7].arg = calls[6].out
          /\ calls[7].agent = "ImageHandle"

\* CreateChild failed after the four events and the lookup: connect() has
\* returned Err and OpenProtocol was not called.
C17_Witness ==
    /\ Returned
    /\ result.kind = "Err"
    /\ FailedFn = "CreateChild"
    /\ Len(calls) = 6
    /\ NumCalls("OpenProtocol") = 0

-----------------------------------------------------------------------------
(* C18 *)

\* C18: when all seven setup calls succeed connect() returns Ok, and the
\* returned stream holds what this call acquired: the events of the four
\* CreateEvent calls in the connect, send, receive and close token, the child
\* handle written by CreateChild, and the protocol pointer written by
\* OpenProtocol on that child; none of them has been destroyed or closed.
C18_OkHoldsAcquired ==
    (Returned /\ FailedCalls = {}) =>
        /\ result.kind = "Ok"
        /\ Len(calls) = 7
        /\ LET s == result.stream
           IN  /\ s.connect_token.Event = calls[1].out
               /\ s.send_token.Event = calls[2].out
               /\ s.recv_token.Event = calls[3].out
               /\ s.close_token.Event = calls[4].out
               /\ Cardinality(EventsOf(s)) = 4
               /\ s.device_handle = calls[6].out
               /\ s.device_handle # NULL
               /\ calls[7].arg = s.device_handle
               /\ s.protocol = calls[7].out
               /\ s.protocol # NULL
               /\ EventsOf(s) \subseteq events
               /\ s.device_handle \in children
        /\ NumCalls("CloseEvent") = 0
        /\ NumCalls("DestroyChild") = 0
        /\ NumCalls("CloseProtocol") = 0

\* A second connect() has returned Ok and the caller holds both streams.
C18_Witness ==
    /\ Returned
    /\ result.kind = "Ok"
    /\ result.stream \in streams
    /\ Cardinality(streams) = 2

=============================================================================
